---- MODULE Spec2Model ----
(***************************************************************************)
(* Model of src/src/analytics.py: the location filter and the eight        *)
(* aggregators, as operations on one caller-owned dataset (a pandas        *)
(* DataFrame passed by reference to every call).                           *)
(*                                                                         *)
(* Text is a sequence of one-character strings, so that lower(), split(),  *)
(* strip() and the substring test are computed as Python computes them.    *)
(* Time is counted in ticks, TicksPerDay of them to a calendar day; a      *)
(* timestamp is a UTC instant plus the offset (in ticks) of its zone.      *)
(* datetime.now() is one naive wall-clock reading per call, the variable   *)
(* now.                                                                    *)
(***************************************************************************)
EXTENDS Integers, Sequences, FiniteSets, TLC

VARIABLES jobs_df, orig_df, now, call, ret

vars == <<jobs_df, orig_df, now, call, ret>>

(***************************************************************************)
(* Bounds of the model                                                     *)
(***************************************************************************)
TicksPerDay == 2
MaxRows == 2
MaxDays == 2
MaxTopN == 2
MaxSalaryRows == 3

(***************************************************************************)
(* Text                                                                    *)
(***************************************************************************)
UpperChars == <<"A", "B", "C", "D", "E", "F", "G", "H", "I", "J", "K", "L", "M", "N", "O", "P", "Q", "R", "S", "T", "U", "V", "W", "X", "Y", "Z">>
LowerChars == <<"a", "b", "c", "d", "e", "f", "g", "h", "i", "j", "k", "l", "m", "n", "o", "p", "q", "r", "s", "t", "u", "v", "w", "x", "y", "z">>

LowerChar(c) ==
    IF \E i \in DOMAIN UpperChars : UpperChars[i] = c
    THEN LowerChars[CHOOSE i \in DOMAIN UpperChars : UpperChars[i] = c]
    ELSE c

\* str.lower()
lower(s) == [i \in DOMAIN s |-> LowerChar(s[i])]

\* p in s (substring test)
Contains(s, p) ==
    \E i \in 0..(Len(s) - Len(p)) : SubSeq(s, i + 1, i + Len(p)) = p

\* str.strip(): leading and trailing blanks removed
RECURSIVE lstrip(_)
lstrip(s) == IF s # <<>> /\ Head(s) = " " THEN lstrip(Tail(s)) ELSE s

RECURSIVE rstrip(_)
rstrip(s) ==
    IF s # <<>> /\ s[Len(s)] = " " THEN rstrip(SubSeq(s, 1, Len(s) - 1)) ELSE s

strip(s) == rstrip(lstrip(s))

\* str.split(','): the pieces between commas, empty pieces kept
RECURSIVE split(_)
split(s) ==
    IF \E i \in DOMAIN s : s[i] = ","
    THEN LET i == CHOOSE k \in DOMAIN s :
                      s[k] = "," /\ \A j \in 1..(k - 1) : s[j] # ","
         IN  <<SubSeq(s, 1, i - 1)>> \o split(SubSeq(s, i + 1, Len(s)))
    ELSE <<s>>

(***************************************************************************)
(* Data frames: a set of column names and a sequence of rows, each row a   *)
(* function from the column names to cell values.                          *)
(***************************************************************************)
\* DataFrame.empty: an axis of length 0
Empty(df) == df.rows = <<>> \/ df.columns = {}

\* df[c] = values: the column is added or replaced in place
SetColumn(df, c, values) ==
    [columns |-> df.columns \cup {c},
     rows |-> [i \in DOMAIN df.rows |->
                 [k \in df.columns \cup {c} |->
                    IF k = c THEN values[i] ELSE df.rows[i][k]]]]

\* What a call returns
EmptyFrame == [kind |-> "empty", rows |-> <<>>]
Frame(rows) == [kind |-> "frame", rows |-> rows]
EmptyMap == [kind |-> "emptymap", rows |-> <<>>]
Map(m) == [kind |-> "map", rows |-> <<m>>]
Raised == [kind |-> "raised", rows |-> <<>>]
\* An exception on its way to the except clause of the call
Exc == [kind |-> "exc", rows |-> <<>>]

Outcome(df, r) == [df |-> df, ret |-> r]

(***************************************************************************)
(* posted_date cells.  "str": a parseable date string showing wall-clock   *)
(* tick t in a zone off ticks ahead of UTC; "bad": an unparseable string;  *)
(* "ts": a timestamp, UTC instant t, shown in the zone off; "nat": NaT.    *)
(* A string without an offset reads as off = 0: utc=True takes it as UTC,   *)
(* and without utc its date is the date it shows.                          *)
(***************************************************************************)
DateStr(w, o) == [kind |-> "str", t |-> w, off |-> o]
BadDate == [kind |-> "bad", t |-> 0, off |-> 0]
Ts(u, o) == [kind |-> "ts", t |-> u, off |-> o]
NaT == [kind |-> "nat", t |-> 0, off |-> 0]

\* pd.to_datetime(x, errors='coerce', utc=True) of one cell
to_datetime_utc(c) ==
    CASE c.kind = "str" -> Ts(c.t - c.off, 0)
      [] c.kind = "ts" -> Ts(c.t, 0)
      [] OTHER -> NaT

\* pd.to_datetime(x, errors='coerce') of one cell: the zone is kept
to_datetime(c) ==
    CASE c.kind = "str" -> Ts(c.t - c.off, c.off)
      [] c.kind = "ts" -> c
      [] OTHER -> NaT

\* .dt.date of one cell: the calendar day shown in the cell's zone
dt_date(c) == (c.t + c.off) \div TicksPerDay

\* The zones of a converted column; with more than one the column is not
\* datetime64 and has no .dt accessor
Zones(rows) ==
    {rows[i]["posted_date"].off :
        i \in {j \in DOMAIN rows : rows[j]["posted_date"].kind = "ts"}}

(***************************************************************************)
(* get_posting_trends                                                      *)
(***************************************************************************)
\* Mutant of date_range: the range starts the day after the cutoff day
date_range_after_cutoff(first, last) ==
    [i \in 1..(IF last > first THEN last - first ELSE 0) |-> first + i]

\* pd.date_range(start=first, end=last, freq='D'): every day from first
\* through last, none when last < first
date_range(first, last) ==
    [i \in 1..(IF last >= first THEN last - first + 1 ELSE 0) |-> first + i - 1]

get_posting_trends_try(df, days, nw) ==
    IF Empty(df) \/ "posted_date" \notin df.columns
    THEN {Outcome(df, EmptyFrame)}
    ELSE LET df1 == SetColumn(df, "posted_date",
                              [i \in DOMAIN df.rows |->
                                 to_datetime_utc(df.rows[i]["posted_date"])])
             cutoff_date == nw - days * TicksPerDay
             InWindow(r) == r["posted_date"].kind = "ts"
                            /\ r["posted_date"].t >= cutoff_date
             recent_jobs == SelectSeq(df1.rows, InWindow)
             full_range == date_range(cutoff_date \div TicksPerDay,
                                      nw \div TicksPerDay)
             \* the per-day counts, left-merged onto full_range
             daily_counts ==
                 [i \in DOMAIN full_range |->
                    LET OnDay(r) == dt_date(r["posted_date"]) = full_range[i]
                    IN  [date |-> full_range[i],
                         count |-> Len(SelectSeq(recent_jobs, OnDay))]]
         IN  IF recent_jobs = <<>>
             THEN {Outcome(df1, EmptyFrame)}
             ELSE {Outcome(df1, Frame(daily_counts))}

\* Mutant of SwallowFrame: the exception is passed on to the caller
SwallowFrame_Propagate(o) ==
    IF o.ret.kind = "exc" THEN Outcome(o.df, Raised) ELSE o

\* except Exception: log and return an empty frame
SwallowFrame(o) == IF o.ret.kind = "exc" THEN Outcome(o.df, EmptyFrame) ELSE o

get_posting_trends(df, days, nw) ==
    {SwallowFrame(o) : o \in get_posting_trends_try(df, days, nw)}

(***************************************************************************)
(* Arithmetic and ordering helpers                                         *)
(***************************************************************************)
RECURSIVE SumSeq(_)
SumSeq(s) == IF s = <<>> THEN 0 ELSE Head(s) + SumSeq(Tail(s))

Min(a, b) == IF a <= b THEN a ELSE b

\* numpy round of the rational n/d (d > 0, n >= 0): nearest integer, a tie
\* going to the even neighbour
RoundHalfEven(n, d) ==
    LET q == n \div d
        r == n % d
    IN  IF 2 * r < d THEN q
        ELSE IF 2 * r > d THEN q + 1
        ELSE IF q % 2 = 0 THEN q ELSE q + 1

\* The values of s in ascending order
SortInts(s) ==
    LET p == CHOOSE q \in Permutations(DOMAIN s) :
                 \A i \in 1..(Len(s) - 1) : s[q[i]] <= s[q[i + 1]]
    IN  [i \in DOMAIN s |-> s[p[i]]]

\* The distinct values of s in the order of their first occurrence
RECURSIVE Uniq(_)
Uniq(s) ==
    IF s = <<>> THEN <<>>
    ELSE LET u == Uniq(SubSeq(s, 1, Len(s) - 1))
             x == s[Len(s)]
         IN  IF \E i \in DOMAIN u : u[i] = x THEN u ELSE Append(u, x)

\* sort_values(by, ascending=False) with the default kind='quicksort', which
\* is not a stable sort: every arrangement of the rows in descending order of
\* column by is a possible result, rows with equal values in any order.
SortDescending(rows, by) ==
    {[i \in DOMAIN rows |-> rows[p[i]]] :
        p \in {q \in Permutations(DOMAIN rows) :
                 \A i \in 1..(Len(rows) - 1) :
                    rows[q[i]][by] >= rows[q[i + 1]][by]}}

\* DataFrame.head(n), n >= 0
head(rows, n) == SubSeq(rows, 1, Min(n, Len(rows)))

\* The values of column c, row by row
Col(df, c) == [i \in DOMAIN df.rows |-> df.rows[i][c]]

\* Series.value_counts(): each distinct value with its number of occurrences,
\* sorted by descending count
value_counts(s) ==
    LET keys == Uniq(s)
        counted == [i \in DOMAIN keys |->
                      LET Is(x) == x = keys[i]
                      IN  [value |-> keys[i], count |-> Len(SelectSeq(s, Is))]]
    IN  SortDescending(counted, "count")

(***************************************************************************)
(* calculate_salary_trends                                                 *)
(***************************************************************************)
\* Mutant of ValidSalary: one positive bound is enough
ValidSalary_Either(r) == r["salary_min"] > 0 \/ r["salary_max"] > 0

\* (salary_min > 0) & (salary_max > 0)
ValidSalary(r) == r["salary_min"] > 0 /\ r["salary_max"] > 0

\* One output row: the statistics of the midpoints of a group.  mids2 holds
\* twice each midpoint, salary_min + salary_max, so that every value is an
\* integer; the statistics themselves are in salary units.
SalaryStat(key, mids2) ==
    LET n == Len(mids2)
        sorted == SortInts(mids2)
        median4 == IF n % 2 = 1
                   THEN 2 * sorted[(n + 1) \div 2]
                   ELSE sorted[n \div 2] + sorted[n \div 2 + 1]
    IN  [group_key |-> key,
         mean |-> RoundHalfEven(SumSeq(mids2), 2 * n),
         median |-> RoundHalfEven(median4, 4),
         min |-> RoundHalfEven(sorted[1], 2),
         max |-> RoundHalfEven(sorted[n], 2),
         count |-> n]

calculate_salary_trends_try(df, group_by) ==
    IF Empty(df) \/ "salary_min" \notin df.columns
    THEN {Outcome(df, EmptyFrame)}
    ELSE IF "salary_max" \notin df.columns
    THEN {Outcome(df, Exc)}                  \* KeyError: 'salary_max'
    ELSE LET valid_salaries == SelectSeq(df.rows, ValidSalary)
         IN  IF valid_salaries = <<>>
             THEN {Outcome(df, EmptyFrame)}
             ELSE IF group_by \notin df.columns
             THEN {Outcome(df, Exc)}         \* KeyError: group_by
             ELSE LET keys == Uniq([i \in DOMAIN valid_salaries |->
                                      valid_salaries[i][group_by]])
                      Mids2(k) ==
                          LET InGroup(r) == r[group_by] = k
                              g == SelectSeq(valid_salaries, InGroup)
                          IN  [i \in DOMAIN g |->
                                 g[i]["salary_min"] + g[i]["salary_max"]]
                      salary_stats ==
                          [i \in DOMAIN keys |-> SalaryStat(keys[i], Mids2(keys[i]))]
                  IN  {Outcome(df, Frame(s)) :
                          s \in SortDescending(salary_stats, "mean")}

\* except Exception: log and raise CustomException
Reraise(o) == IF o.ret.kind = "exc" THEN Outcome(o.df, Raised) ELSE o

calculate_salary_trends(df, group_by) ==
    {Reraise(o) : o \in calculate_salary_trends_try(df, group_by)}

(***************************************************************************)
(* get_top_skills                                                          *)
(***************************************************************************)
\* skills cells: "str" with the text s, "nan" (missing), "num" (not a string)
SkillsStr(s) == [kind |-> "str", s |-> s]
SkillsNaN == [kind |-> "nan", s |-> <<>>]
SkillsNum == [kind |-> "num", s |-> <<>>]

\* [s.strip() for s in skills_str.split(',')], the empty ones dropped
SkillTokens(s) ==
    LET pieces == split(s)
        stripped == [i \in DOMAIN pieces |-> strip(pieces[i])]
        NonEmpty(x) == x # <<>>
    IN  SelectSeq(stripped, NonEmpty)

\* Every token of every row, in dataset order
RECURSIVE AllSkillTokens(_)
AllSkillTokens(cells) ==
    IF cells = <<>> THEN <<>>
    ELSE (IF Head(cells).kind = "str" THEN SkillTokens(Head(cells).s) ELSE <<>>)
         \o AllSkillTokens(Tail(cells))

get_top_skills_try(df, top_n) ==
    IF Empty(df) \/ "skills" \notin df.columns
    THEN {Outcome(df, EmptyFrame)}
    ELSE LET tokens == AllSkillTokens(Col(df, "skills"))
             names == Uniq(tokens)          \* dict keys: insertion order
             skill_counts ==
                 [i \in DOMAIN names |->
                    LET Is(x) == x = names[i]
                    IN  [skill |-> names[i], count |-> Len(SelectSeq(tokens, Is))]]
         IN  {Outcome(df, Frame(head(s, top_n))) :
                 s \in SortDescending(skill_counts, "count")}

get_top_skills(df, top_n) ==
    {SwallowFrame(o) : o \in get_top_skills_try(df, top_n)}

(***************************************************************************)
(* get_top_companies, get_experience_distribution                          *)
(***************************************************************************)
get_top_companies_try(df, top_n) ==
    IF Empty(df) \/ "company" \notin df.columns
    THEN {Outcome(df, EmptyFrame)}
    ELSE {Outcome(df, Frame([i \in DOMAIN head(s, top_n) |->
                               [company |-> s[i].value, job_count |-> s[i].count]])) :
             s \in value_counts(Col(df, "company"))}

get_top_companies(df, top_n) ==
    {SwallowFrame(o) : o \in get_top_companies_try(df, top_n)}

get_experience_distribution_try(df) ==
    IF Empty(df) \/ "experience" \notin df.columns
    THEN {Outcome(df, EmptyFrame)}
    ELSE {Outcome(df, Frame([i \in DOMAIN s |->
                               [experience_level |-> s[i].value, count |-> s[i].count]])) :
             s \in value_counts(Col(df, "experience"))}

get_experience_distribution(df) ==
    {SwallowFrame(o) : o \in get_experience_distribution_try(df)}

(***************************************************************************)
(* calculate_location_stats                                                *)
(***************************************************************************)
calculate_location_stats_try(df) ==
    IF Empty(df) \/ "location" \notin df.columns
    THEN {Outcome(df, EmptyFrame)}
    ELSE IF ~({"job_id", "salary_min", "salary_max"} \subseteq df.columns)
    THEN {Outcome(df, Exc)}                  \* KeyError in agg
    ELSE LET keys == Uniq(Col(df, "location"))
             Stat(k) ==
                 LET InGroup(r) == r["location"] = k
                     g == SelectSeq(df.rows, InGroup)
                     n == Len(g)
                     avg_min == RoundHalfEven(
                                   SumSeq([i \in DOMAIN g |-> g[i]["salary_min"]]), n)
                     avg_max == RoundHalfEven(
                                   SumSeq([i \in DOMAIN g |-> g[i]["salary_max"]]), n)
                 IN  [location |-> k, job_count |-> n,
                      avg_salary_min |-> avg_min, avg_salary_max |-> avg_max,
                      \* (avg_salary_min + avg_salary_max) / 2, kept doubled
                      avg_salary_x2 |-> avg_min + avg_max]
             location_stats == [i \in DOMAIN keys |-> Stat(keys[i])]
         IN  {Outcome(df, Frame(s)) :
                 s \in SortDescending(location_stats, "job_count")}

calculate_location_stats(df) ==
    {SwallowFrame(o) : o \in calculate_location_stats_try(df)}

(***************************************************************************)
(* get_role_distribution                                                   *)
(***************************************************************************)
\* The if/elif chain of extract_role, in its order
RoleRules ==
    <<[pats |-> {<<"d", "a", "t", "a", " ", "s", "c", "i", "e", "n", "t", "i", "s", "t">>},
       role |-> "Data Scientist"],
      [pats |-> {<<"d", "a", "t", "a", " ", "e", "n", "g", "i", "n", "e", "e", "r">>},
       role |-> "Data Engineer"],
      [pats |-> {<<"d", "a", "t", "a", " ", "a", "n", "a", "l", "y", "s", "t">>},
       role |-> "Data Analyst"],
      [pats |-> {<<"f", "u", "l", "l", " ", "s", "t", "a", "c", "k">>},
       role |-> "Full Stack Developer"],
      [pats |-> {<<"f", "r", "o", "n", "t", "e", "n", "d">>,
                 <<"f", "r", "o", "n", "t", " ", "e", "n", "d">>},
       role |-> "Frontend Developer"],
      [pats |-> {<<"b", "a", "c", "k", "e", "n", "d">>,
                 <<"b", "a", "c", "k", " ", "e", "n", "d">>},
       role |-> "Backend Developer"],
      [pats |-> {<<"d", "e", "v", "o", "p", "s">>},
       role |-> "DevOps Engineer"],
      [pats |-> {<<"m", "a", "c", "h", "i", "n", "e", " ", "l", "e", "a", "r", "n", "i", "n", "g">>,
                 <<"m", "l", " ", "e", "n", "g", "i", "n", "e", "e", "r">>},
       role |-> "ML Engineer"],
      [pats |-> {<<"s", "o", "f", "t", "w", "a", "r", "e", " ", "e", "n", "g", "i", "n", "e", "e", "r">>,
                 <<"s", "o", "f", "t", "w", "a", "r", "e", " ", "d", "e", "v", "e", "l", "o", "p", "e", "r">>},
       role |-> "Software Engineer"],
      [pats |-> {<<"q", "a">>,
                 <<"t", "e", "s", "t">>},
       role |-> "QA Engineer"]>>

extract_role(title) ==
    LET title_lower == lower(title)
        Hit(i) == \E p \in RoleRules[i].pats : Contains(title_lower, p)
    IN  IF \E i \in DOMAIN RoleRules : Hit(i)
        THEN RoleRules[CHOOSE i \in DOMAIN RoleRules :
                          Hit(i) /\ \A j \in 1..(i - 1) : ~Hit(j)].role
        ELSE "Other"

get_role_distribution_try(df, top_n) ==
    IF Empty(df) \/ "title" \notin df.columns
    THEN {Outcome(df, EmptyFrame)}
    ELSE LET \* jobs_df['role'] = jobs_df['title'].apply(extract_role)
             df1 == SetColumn(df, "role",
                              [i \in DOMAIN df.rows |->
                                 extract_role(df.rows[i]["title"])])
         IN  {Outcome(df1, Frame([i \in DOMAIN head(s, top_n) |->
                                    [role |-> s[i].value, count |-> s[i].count]])) :
                 s \in value_counts(Col(df1, "role"))}

get_role_distribution(df, top_n) ==
    {SwallowFrame(o) : o \in get_role_distribution_try(df, top_n)}

(***************************************************************************)
(* calculate_summary_stats                                                 *)
(***************************************************************************)
WeekDays == 7

nunique(s) == Len(Uniq(s))

calculate_summary_stats_try(df, nw) ==
    IF Empty(df)
    THEN {Outcome(df, EmptyMap)}
    ELSE LET valid_salaries ==
                 IF {"salary_min", "salary_max"} \subseteq df.columns
                 THEN SelectSeq(df.rows, ValidSalary)
                 ELSE <<>>
             \* int(avg_sal.mean()): the mean of the midpoints, truncated
             avg_salary ==
                 IF valid_salaries = <<>> THEN 0
                 ELSE SumSeq([i \in DOMAIN valid_salaries |->
                                valid_salaries[i]["salary_min"]
                                + valid_salaries[i]["salary_max"]])
                      \div (2 * Len(valid_salaries))
             stats == [total_jobs |-> Len(df.rows),
                       total_companies |-> IF "company" \in df.columns
                                           THEN nunique(Col(df, "company")) ELSE 0,
                       total_locations |-> IF "location" \in df.columns
                                           THEN nunique(Col(df, "location")) ELSE 0,
                       avg_salary |-> avg_salary,
                       jobs_today |-> 0,
                       jobs_this_week |-> 0]
         IN  IF "posted_date" \notin df.columns
             THEN {Outcome(df, Map(stats))}
             ELSE LET df1 == SetColumn(df, "posted_date",
                                       [i \in DOMAIN df.rows |->
                                          to_datetime(df.rows[i]["posted_date"])])
                      today == nw \div TicksPerDay
                      week_ago == today - WeekDays
                      Today(r) == r["posted_date"].kind = "ts"
                                  /\ dt_date(r["posted_date"]) = today
                      ThisWeek(r) == r["posted_date"].kind = "ts"
                                     /\ dt_date(r["posted_date"]) >= week_ago
                  IN  IF Cardinality(Zones(df1.rows)) > 1
                      \* Mixed offsets: the conversion yields datetime objects
                      \* on which .dt raises, or (later pandas) raises itself
                      \* before the column is assigned.
                      THEN {Outcome(df1, Exc), Outcome(df, Exc)}
                      ELSE {Outcome(df1, Map([stats EXCEPT
                                !.jobs_today = Len(SelectSeq(df1.rows, Today)),
                                !.jobs_this_week = Len(SelectSeq(df1.rows, ThisWeek))]))}

\* except Exception: log and return {}
SwallowMap(o) == IF o.ret.kind = "exc" THEN Outcome(o.df, EmptyMap) ELSE o

calculate_summary_stats(df, nw) ==
    {SwallowMap(o) : o \in calculate_summary_stats_try(df, nw)}

(***************************************************************************)
(* filter_jobs_by_location                                                 *)
(***************************************************************************)
S_All == <<"A", "l", "l">>
S_remote == <<"r", "e", "m", "o", "t", "e">>
S_Bangalore == <<"B", "a", "n", "g", "a", "l", "o", "r", "e">>
S_bangalore == <<"b", "a", "n", "g", "a", "l", "o", "r", "e">>
S_Bengaluru == <<"B", "e", "n", "g", "a", "l", "u", "r", "u">>
S_Mumbai == <<"M", "u", "m", "b", "a", "i">>
S_Bombay == <<"B", "o", "m", "b", "a", "y">>
S_Remote == <<"R", "e", "m", "o", "t", "e">>
S_Pune == <<"P", "u", "n", "e">>

\* src.data_loader.normalize_location: a raw location string to its
\* canonical city name; known aliases are mapped, anything else is kept.
normalize_location(s) ==
    CASE lower(s) = lower(S_Bengaluru) -> S_Bangalore
      [] lower(s) = lower(S_Bangalore) -> S_Bangalore
      [] lower(s) = lower(S_Bombay) -> S_Mumbai
      [] lower(s) = lower(S_Mumbai) -> S_Mumbai
      [] lower(s) = S_remote -> S_Remote
      [] OTHER -> s

\* row.get('location', '')
RowLocation(r) == IF "location" \in DOMAIN r THEN r["location"] ELSE <<>>

\* Mutant of LocationMatches: remote rows get no special treatment
LocationMatches_NoRemote(r, location) ==
    lower(normalize_location(RowLocation(r))) = lower(location)

LocationMatches(r, location) ==
    LET location_lower == lower(location)
        normalized == lower(normalize_location(RowLocation(r)))
    IN  normalized = location_lower \/ normalized = S_remote

filter_jobs_by_location(df, location) ==
    IF location = <<>> \/ location = S_All
    THEN {Outcome(df, Frame(df.rows))}
    ELSE LET Matches(r) == LocationMatches(r, location)
             filtered == SelectSeq(df.rows, Matches)
         IN  IF filtered # <<>>
             THEN {Outcome(df, Frame(filtered))}
             ELSE {Outcome(df, EmptyFrame)}

(***************************************************************************)
(* Specification: the caller holds one dataset and calls the operations    *)
(* on it in any order.  orig_df keeps the dataset as it was handed over.   *)
(***************************************************************************)
NoCall == [op |-> "none", arg |-> 0]
NoRet == [kind |-> "none", rows |-> <<>>]

AllColumns == {"job_id", "title", "company", "location", "salary_min",
               "salary_max", "skills", "experience", "posted_date"}

T_SeniorDataScientist == <<"S", "e", "n", "i", "o", "r", " ", "D", "a", "t", "a", " ", "S", "c", "i", "e", "n", "t", "i", "s", "t">>
T_OfficeCoordinator == <<"O", "f", "f", "i", "c", "e", " ", "C", "o", "o", "r", "d", "i", "n", "a", "t", "o", "r">>
T_QALeadDevOps == <<"Q", "A", " ", "L", "e", "a", "d", " ", "/", " ", "D", "e", "v", "O", "p", "s">>
Titles == <<T_SeniorDataScientist, T_OfficeCoordinator, T_QALeadDevOps>>

K_a_b == <<"a", ",", " ", "b">>
K_b_a == <<"b", ",", "a", " ", ",">>
K_b_c == <<"b", ",", " ", "c">>
K_blank == <<" ", ",", " ">>

\* The wall-clock reading of the first call, tick 0 or 1 of day 10
NowChoices == {10 * TicksPerDay, 10 * TicksPerDay + 1}
Offsets == {0, 1}

\* Row i of the datasets whose cells a specification does not vary
BaseRow(i, nw) ==
    [job_id |-> i,
     title |-> Titles[(i % 3) + 1],
     company |-> IF i % 2 = 1 THEN "Acme" ELSE "Initech",
     location |-> IF i % 2 = 1 THEN S_Bangalore ELSE S_Mumbai,
     salary_min |-> 100 * (i % 2),
     salary_max |-> 200 * (i % 2),
     skills |-> SkillsStr(IF i % 2 = 1 THEN K_a_b ELSE K_b_c),
     experience |-> IF i % 2 = 1 THEN "0-2" ELSE "3-5",
     posted_date |-> DateStr(nw - i, i % 2)]

\* A row is a function on the column names; a record is one with all nine
MakeFrame(cols, recs) ==
    [columns |-> cols,
     rows |-> [i \in DOMAIN recs |-> [c \in cols |-> recs[i][c]]]]

InitRest ==
    /\ orig_df = jobs_df
    /\ call = NoCall
    /\ ret = NoRet

Do(op, arg, outcomes) ==
    \E o \in outcomes :
        /\ jobs_df' = o.df
        /\ ret' = o.ret
        /\ call' = [op |-> op, arg |-> arg]
        /\ UNCHANGED <<orig_df, now>>

GroupKeys == {"location", "title", "role"}

Requests == {<<>>, S_All, S_Bangalore, S_bangalore, S_Bengaluru, S_Mumbai,
             S_Pune, S_Remote}

CallFilter ==
    \E location \in Requests :
        Do("filter_jobs_by_location", location,
           filter_jobs_by_location(jobs_df, location))

CallSalaryTrends ==
    \E group_by \in GroupKeys :
        Do("calculate_salary_trends", group_by,
           calculate_salary_trends(jobs_df, group_by))

CallTopSkills ==
    \E top_n \in 0..MaxTopN :
        Do("get_top_skills", top_n, get_top_skills(jobs_df, top_n))

CallTopCompanies ==
    \E top_n \in 0..MaxTopN :
        Do("get_top_companies", top_n, get_top_companies(jobs_df, top_n))

CallLocationStats ==
    Do("calculate_location_stats", 0, calculate_location_stats(jobs_df))

CallPostingTrends ==
    \E days \in 0..MaxDays :
        Do("get_posting_trends", days, get_posting_trends(jobs_df, days, now))

CallExperienceDistribution ==
    Do("get_experience_distribution", 0, get_experience_distribution(jobs_df))

CallRoleDistribution ==
    \E top_n \in 0..MaxTopN :
        Do("get_role_distribution", top_n, get_role_distribution(jobs_df, top_n))

CallSummaryStats ==
    Do("calculate_summary_stats", 0, calculate_summary_stats(jobs_df, now))

\* Datasets with every column, with one column missing, or with no column
ColumnSets ==
    {{}, AllColumns} \cup {AllColumns \ {c} : c \in AllColumns}

Init ==
    /\ now = 10 * TicksPerDay
    /\ \E cols \in ColumnSets, n \in 0..MaxRows :
          jobs_df = MakeFrame(cols, [i \in 1..n |-> BaseRow(i, now)])
    /\ InitRest

Next ==
    \/ CallFilter
    \/ CallSalaryTrends
    \/ CallTopSkills
    \/ CallTopCompanies
    \/ CallLocationStats
    \/ CallPostingTrends
    \/ CallExperienceDistribution
    \/ CallRoleDistribution
    \/ CallSummaryStats

Spec == Init /\ [][Next]_vars

\* Datasets whose posted_date cells vary
RelDays == {0 - WeekDays - 1, 0 - WeekDays, -1, 0, 1}

DateCells(nw) ==
    {BadDate} \cup
    {DateStr(nw + d * TicksPerDay + k, o) :
        d \in RelDays, k \in 0..(TicksPerDay - 1), o \in Offsets}

InitDates ==
    /\ now \in NowChoices
    /\ \E n \in 0..MaxRows :
         \E dates \in [1..n -> DateCells(now)] :
            jobs_df = MakeFrame(AllColumns,
                        [i \in 1..n |->
                           [BaseRow(i, now) EXCEPT !.posted_date = dates[i]]])
    /\ InitRest

NextDates ==
    \/ CallPostingTrends
    \/ CallSummaryStats

SpecDates == InitDates /\ [][NextDates]_vars

\* Datasets whose location and salary cells vary
InitSalary ==
    /\ now = 10 * TicksPerDay
    /\ \E n \in 0..MaxSalaryRows :
         \E loc \in [1..n -> {S_Bangalore, S_Mumbai}],
            lo \in [1..n -> {0, 100}],
            hi \in [1..n -> {0, 200, 201}] :
            jobs_df = MakeFrame(AllColumns,
                        [i \in 1..n |->
                           [BaseRow(i, now) EXCEPT !.location = loc[i],
                                                   !.salary_min = lo[i],
                                                   !.salary_max = hi[i]]])
    /\ InitRest

NextSalary ==
    \/ CallSalaryTrends
    \/ CallLocationStats

SpecSalary == InitSalary /\ [][NextSalary]_vars

\* Datasets whose skills cells vary
SkillsCells ==
    {SkillsStr(K_a_b), SkillsStr(K_b_a), SkillsStr(K_b_c), SkillsStr(K_blank),
     SkillsNaN, SkillsNum}

InitSkills ==
    /\ now = 10 * TicksPerDay
    /\ \E n \in 0..MaxRows :
         \E sk \in [1..n -> SkillsCells] :
            jobs_df = MakeFrame(AllColumns,
                        [i \in 1..n |-> [BaseRow(i, now) EXCEPT !.skills = sk[i]]])
    /\ InitRest

NextSkills ==
    \/ CallTopSkills
    \/ CallTopCompanies
    \/ CallExperienceDistribution
    \/ CallRoleDistribution

SpecSkills == InitSkills /\ [][NextSkills]_vars

\* Datasets whose location cells vary, with and without the location column
LocationCells ==
    {S_Bangalore, S_bangalore, S_Bengaluru, S_Mumbai, S_Remote, S_Pune}

InitFilter ==
    /\ now = 10 * TicksPerDay
    /\ \E n \in 0..MaxRows, cols \in {AllColumns, AllColumns \ {"location"}} :
         \E loc \in [1..n -> LocationCells] :
            jobs_df = MakeFrame(cols,
                        [i \in 1..n |-> [BaseRow(i, now) EXCEPT !.location = loc[i]]])
    /\ InitRest

NextFilter == CallFilter

SpecFilter == InitFilter /\ [][NextFilter]_vars

(***************************************************************************)
(* Claims                                                                  *)
(***************************************************************************)
Aggregators ==
    {"calculate_salary_trends", "get_top_skills", "get_top_companies",
     "calculate_location_stats", "get_posting_trends",
     "get_experience_distribution", "get_role_distribution",
     "calculate_summary_stats"}

\* What the call c can return when made on the dataset df at time nw
Returns(c, df, nw) ==
    LET outs ==
          CASE c.op = "calculate_salary_trends" -> calculate_salary_trends(df, c.arg)
            [] c.op = "get_top_skills" -> get_top_skills(df, c.arg)
            [] c.op = "get_top_companies" -> get_top_companies(df, c.arg)
            [] c.op = "calculate_location_stats" -> calculate_location_stats(df)
            [] c.op = "get_posting_trends" -> get_posting_trends(df, c.arg, nw)
            [] c.op = "get_experience_distribution" -> get_experience_distribution(df)
            [] c.op = "get_role_distribution" -> get_role_distribution(df, c.arg)
            [] c.op = "calculate_summary_stats" -> calculate_summary_stats(df, nw)
    IN  {o.ret : o \in outs}

\* C1: after any sequence of aggregator calls the caller's dataset has the
\* columns and the cell values it had before the first call.
C1_DatasetUnchanged == jobs_df = orig_df

\* C2: the result of an aggregator call is a result the same call gives on
\* the dataset as it was before any other aggregator was called on it.
C2_OrderIndependent ==
    call.op \in Aggregators => ret \in Returns(call, orig_df, now)

\* The rows of the original dataset that pass the window filter of
\* get_posting_trends(days): a parseable date at or after now - days
InWindowRows(days) ==
    {j \in DOMAIN orig_df.rows :
        LET c == orig_df.rows[j]["posted_date"]
        IN  c.kind = "str" /\ c.t - c.off >= now - days * TicksPerDay}

UtcDay(j) ==
    LET c == orig_df.rows[j]["posted_date"] IN (c.t - c.off) \div TicksPerDay

C4_CountsSumToWindow ==
    (call.op = "get_posting_trends" /\ ret.kind = "frame") =>
        /\ SumSeq([i \in DOMAIN ret.rows |-> ret.rows[i].count])
              = Cardinality(InWindowRows(call.arg))
        /\ \E i \in DOMAIN ret.rows : ret.rows[i].count > 0

\* The location-filter predicate with the request normalized (as claimed)
\* or only lower-cased (as amended)
SelectedBy(r, wanted) ==
    /\ "location" \in DOMAIN r
    /\ \/ lower(normalize_location(r["location"])) = wanted
       \/ lower(normalize_location(r["location"])) = S_remote

FilterReturns(wanted) ==
    LET Sel(r) == SelectedBy(r, wanted)
    IN  /\ ret.rows = SelectSeq(orig_df.rows, Sel)
        /\ ret.kind = IF ret.rows = <<>> THEN "empty" ELSE "frame"

IsLocationRequest ==
    call.op = "filter_jobs_by_location" /\ call.arg # <<>> /\ call.arg # S_All

\* C5 as claimed: the filter selects, in row order, the records whose
\* normalized lower-cased location equals the normalized lower-cased request
\* or "remote", and returns the empty result when there is none.
C5_RequestNormalized ==
    IsLocationRequest => FilterReturns(lower(normalize_location(call.arg)))

\* C5 as amended: the request is lower-cased but not normalized.
C5_RequestLowered ==
    IsLocationRequest => FilterReturns(lower(call.arg))

C5_Witness ==
    /\ IsLocationRequest
    /\ call.arg = S_bangalore
    /\ Len(ret.rows) = 2
    /\ ret.rows[1]["location"] = S_Remote
    /\ ret.rows[2]["location"] = S_Bengaluru

\* C6: calculate_salary_trends on a non-empty dataset that lacks salary_min
\* or salary_max returns the empty result.
C6_MissingSalaryColumnIsEmpty ==
    (/\ call.op = "calculate_salary_trends"
     /\ ~Empty(orig_df)
     /\ ~({"salary_min", "salary_max"} \subseteq orig_df.columns))
        => ret = EmptyFrame

RequiredColumns(op) ==
    CASE op = "get_top_skills" -> {"skills"}
      [] op = "get_top_companies" -> {"company"}
      [] op = "calculate_location_stats" ->
            {"location", "job_id", "salary_min", "salary_max"}
      [] op = "get_posting_trends" -> {"posted_date"}
      [] op = "get_experience_distribution" -> {"experience"}
      [] op = "get_role_distribution" -> {"title"}
      [] OTHER -> {}

\* C7: no aggregator other than calculate_salary_trends raises; a missing
\* required column ends in the empty result; calculate_salary_trends raises
\* on its internal failure (here: salary_max missing).
C7_OnlySalaryTrendsRaises ==
    /\ call.op \in Aggregators \ {"calculate_salary_trends"} =>
          /\ ret.kind \in (IF call.op = "calculate_summary_stats"
                           THEN {"map", "emptymap"} ELSE {"frame", "empty"})
          /\ ~(RequiredColumns(call.op) \subseteq orig_df.columns)
                => ret = EmptyFrame
    /\ (/\ call.op = "calculate_salary_trends"
        /\ orig_df.rows # <<>>
        /\ "salary_min" \in orig_df.columns
        /\ "salary_max" \notin orig_df.columns) => ret = Raised

C7_Witness ==
    /\ call.op = "calculate_location_stats"
    /\ orig_df.rows # <<>>
    /\ "location" \in orig_df.columns
    /\ "job_id" \notin orig_df.columns
    /\ ret = EmptyFrame

\* C8: jobs_this_week counts the records whose posted date is on a day from
\* today - 7 through today.
C8_JobsThisWeek ==
    (call.op = "calculate_summary_stats" /\ ret.kind = "map") =>
        LET today == now \div TicksPerDay
        IN  ret.rows[1].jobs_this_week =
               Cardinality({j \in DOMAIN jobs_df.rows :
                  LET c == jobs_df.rows[j]["posted_date"]
                  IN  /\ c.kind = "ts"
                      /\ dt_date(c) >= today - WeekDays
                      /\ dt_date(c) <= today})

RECURSIVE SumMids2(_, _)
SumMids2(rows, g) ==
    IF g = {} THEN 0
    ELSE LET j == CHOOSE x \in g : TRUE
         IN  rows[j]["salary_min"] + rows[j]["salary_max"] + SumMids2(rows, g \ {j})

C10_TiesByFirstOccurrence ==
    (call.op = "get_top_skills" /\ ret.kind = "frame") =>
        LET tokens == AllSkillTokens(Col(orig_df, "skills"))
            Cnt(x) == Cardinality({k \in DOMAIN tokens : tokens[k] = x})
            First(x) == CHOOSE k \in DOMAIN tokens :
                           tokens[k] = x /\ \A h \in 1..(k - 1) : tokens[h] # x
            Before(x, y) == Cnt(x) > Cnt(y) \/ (Cnt(x) = Cnt(y) /\ First(x) < First(y))
            distinct == {tokens[k] : k \in DOMAIN tokens}
            returned == {ret.rows[i].skill : i \in DOMAIN ret.rows}
        IN  /\ Len(ret.rows) = Min(call.arg, Cardinality(distinct))
            /\ returned \subseteq distinct
            /\ \A i \in DOMAIN ret.rows : ret.rows[i].count = Cnt(ret.rows[i].skill)
            /\ \A i, j \in DOMAIN ret.rows :
                  i < j => Before(ret.rows[i].skill, ret.rows[j].skill)
            /\ \A x \in returned, y \in distinct \ returned : Before(x, y)

====
